---- MODULE Spec2Model ----
(***************************************************************************)
(* Finite field arithmetic (src/math/field_element.rs) and the elliptic    *)
(* curve point law built on it (src/math/ecc/mod.rs).                      *)
(*                                                                         *)
(* Every operation of the library is a pure function of its operands.  The *)
(* state machine applies one operation to operands drawn from bounded sets *)
(* and records the operation, its operands and its outcome:                *)
(*   Ok(v)   the operation returned v                                      *)
(*   Err(e)  the operation returned the recoverable error e                *)
(*   Panic   the operation aborted (panic!, unwrap of Err, a failed        *)
(*           assertion inside BigInt::modpow)                              *)
(***************************************************************************)
EXTENDS Integers, Sequences, FiniteSets, TLC

VARIABLES pc, op, args, res

vars == <<pc, op, args, res>>

-----------------------------------------------------------------------------
(* Bounds *)

\* moduli are the primes up to MaxPrime
MaxPrime == 7
\* FieldElement::new is tried on every integer in -MaxNeg .. MaxPrime
MaxNeg == 1
\* pow is tried on every exponent in -MaxExp .. MaxExp
MaxExp == 8

IsPrime(n) == n >= 2 /\ \A d \in 2..(n - 1) : n % d # 0

Primes == {p \in 2..MaxPrime : IsPrime(p)}

Nums == (-MaxNeg)..MaxPrime

Exps == (-MaxExp)..MaxExp

-----------------------------------------------------------------------------
(* Outcomes *)

Ok(v) == [kind |-> "ok", val |-> v]

Err(e) == [kind |-> "err", err |-> e]

Panic == [kind |-> "panic"]

\* Result::unwrap: the value of Ok, an abort on Err
unwrap(r) == IF r.kind = "ok" THEN r ELSE Panic

\* an abort while evaluating an operand aborts the enclosing expression
Bind1(r, F(_)) == IF r.kind = "ok" THEN F(r.val) ELSE Panic

Bind2(r1, r2, F(_, _)) ==
    IF r1.kind = "ok" /\ r2.kind = "ok" THEN F(r1.val, r2.val) ELSE Panic

-----------------------------------------------------------------------------
(* Integer helpers of num_bigint / num_integer, for a positive modulus *)

\* the remainder with the sign of the dividend (Rust's %), not what the code uses
mod_floor_truncating(a, m) == IF a >= 0 THEN a % m ELSE -((-a) % m)

\* Integer::mod_floor: the remainder of floored division, in [0, m) for m > 0
mod_floor(a, m) == a - m * (a \div m)

RECURSIVE pow_mod(_, _, _)
\* base^e reduced into [0, m), for e >= 0
pow_mod(base, e, m) ==
    IF e = 0 THEN mod_floor(1, m)
    ELSE mod_floor(base * pow_mod(base, e - 1, m), m)

\* BigInt::modpow: aborts on a negative exponent
modpow(base, e, m) == IF e < 0 THEN Panic ELSE Ok(pow_mod(base, e, m))

-----------------------------------------------------------------------------
(* FieldElement *)

FE(n, p) == [num |-> n, prime |-> p]

FieldElement_new(num, prime) ==
    IF num >= prime THEN Err("OutOfRange") ELSE Ok(FE(num, prime))

pow(self, exp) ==
    LET e == IF exp < 0 THEN exp + (self.prime - 1) ELSE exp
    IN  Bind1(modpow(self.num, e, self.prime),
              LAMBDA v : unwrap(FieldElement_new(v, self.prime)))

\* a slip in the Fermat exponent: divisor^(p-1) instead of divisor^(p-2)
div_wrong_exponent(self, divisor) ==
    Bind1(modpow(divisor, self.prime - 1, self.prime),
          LAMBDA divisor_inv_exp :
              unwrap(FieldElement_new(mod_floor(self.num * divisor_inv_exp, self.prime),
                                      self.prime)))

div(self, divisor) ==
    Bind1(modpow(divisor, self.prime - 2, self.prime),
          LAMBDA divisor_inv_exp :
              unwrap(FieldElement_new(mod_floor(self.num * divisor_inv_exp, self.prime),
                                      self.prime)))

div_field(self, divisor) ==
    Bind1(modpow(divisor.num, self.prime - 2, self.prime),
          LAMBDA divisor_inv_exp :
              unwrap(FieldElement_new(mod_floor(self.num * divisor_inv_exp, self.prime),
                                      self.prime)))

\* T + &U
add_owned(self, other) ==
    IF self.prime # other.prime THEN Panic
    ELSE unwrap(FieldElement_new(mod_floor(self.num + other.num, self.prime), self.prime))

\* &T + &U
add_ref(self, other) ==
    IF self.prime # other.prime THEN Panic
    ELSE unwrap(FieldElement_new(mod_floor(self.num + other.num, self.prime), self.prime))

\* T - &U
sub_owned(self, other) ==
    IF self.prime # other.prime THEN Panic
    ELSE unwrap(FieldElement_new(mod_floor(self.num - other.num, self.prime), self.prime))

\* &T - &U
sub_ref(self, other) ==
    IF self.prime # other.prime THEN Panic
    ELSE unwrap(FieldElement_new(mod_floor(self.num - other.num, self.prime), self.prime))

\* T * &U
mul_owned(self, other) ==
    IF self.prime # other.prime THEN Panic
    ELSE unwrap(FieldElement_new(mod_floor(self.num * other.num, self.prime), self.prime))

\* &T * &U
mul_ref(self, other) ==
    IF self.prime # other.prime THEN Panic
    ELSE unwrap(FieldElement_new(mod_floor(self.num * other.num, self.prime), self.prime))

\* &T * &BigInt: the scalar is first made a FieldElement of self's field
mul_bigint(self, other) ==
    Bind1(unwrap(FieldElement_new(other, self.prime)),
          LAMBDA fother : mul_ref(self, fother))

\* every FieldElement the constructor hands out for the bounded inputs
FieldElements ==
    {r.val : r \in {x \in {FieldElement_new(n, p) : n \in Nums, p \in Primes} : x.kind = "ok"}}

ElementsOf(p) == {e \in FieldElements : e.prime = p}

-----------------------------------------------------------------------------
(* FieldPoint *)

FP(x, y, a, b, inf) == [x |-> x, y |-> y, a |-> a, b |-> b, inf |-> inf]

\* the membership test with the constant term b left out
FieldPoint_new_without_b(x, y, a, b) ==
    LET lhs == pow(y, 2)
        rhs == Bind2(pow(x, 3), mul_ref(a, x), add_owned)
    IN  IF lhs.kind # "ok" \/ rhs.kind # "ok" THEN Panic
        ELSE IF lhs.val # rhs.val THEN Err("NotOnCurve")
        ELSE Ok(FP(x, y, a, b, FALSE))

\* y.pow(2) != x.pow(3) + &(a * x) + b
FieldPoint_new(x, y, a, b) ==
    LET lhs == pow(y, 2)
        rhs == Bind2(Bind2(pow(x, 3), mul_ref(a, x), add_owned), Ok(b), add_owned)
    IN  IF lhs.kind # "ok" \/ rhs.kind # "ok" THEN Panic
        ELSE IF lhs.val # rhs.val THEN Err("NotOnCurve")
        ELSE Ok(FP(x, y, a, b, FALSE))

FieldPoint_new_inf(a, b) ==
    Bind2(unwrap(FieldElement_new(0, 1)), unwrap(FieldElement_new(0, 1)),
          LAMBDA x, y : Ok(FP(x, y, a, b, TRUE)))

\* the chord rule, self.x != other.x
add_chord(self, other) ==
    LET slope == Bind2(sub_ref(other.y, self.y), sub_ref(other.x, self.x), div_field)
        x3 == Bind2(Bind2(Bind1(slope, LAMBDA s : pow(s, 2)), Ok(self.x), sub_owned),
                    Ok(other.x), sub_ref)
        y3 == Bind2(Bind2(slope, Bind2(Ok(self.x), x3, sub_owned), mul_ref),
                    Ok(self.y), sub_ref)
    IN  Bind2(x3, y3, LAMBDA u, v : unwrap(FieldPoint_new(u, v, self.a, self.b)))

\* the tangent rule of the final else branch
add_double(self) ==
    LET slope == Bind2(Bind2(Bind1(pow(self.x, 2), LAMBDA sq : mul_bigint(sq, 3)),
                             Ok(self.a), add_owned),
                       mul_bigint(self.y, 2), div_field)
        x3 == Bind2(Bind1(slope, LAMBDA s : pow(s, 2)), mul_bigint(self.x, 2), sub_ref)
        y3 == Bind2(Bind2(slope, Bind2(Ok(self.x), x3, sub_ref), mul_ref),
                    Ok(self.y), sub_ref)
    IN  Bind2(x3, y3, LAMBDA u, v : unwrap(FieldPoint_new(u, v, self.a, self.b)))

\* the identity branches exchanged: the infinity operand is returned
FieldPoint_add_returns_inf(self, other) ==
    IF self.a # other.a \/ self.b # other.b THEN Panic
    ELSE IF self.inf THEN Ok(self)
    ELSE IF other.inf THEN Ok(other)
    ELSE IF self.x # other.x THEN add_chord(self, other)
    ELSE IF self.y.num = 0 THEN unwrap(FieldPoint_new_inf(self.a, self.b))
    ELSE add_double(self)

FieldPoint_add(self, other) ==
    IF self.a # other.a \/ self.b # other.b THEN Panic
    ELSE IF self.inf THEN Ok(other)
    ELSE IF other.inf THEN Ok(self)
    ELSE IF self.x # other.x THEN add_chord(self, other)
    ELSE IF self.y.num = 0 THEN unwrap(FieldPoint_new_inf(self.a, self.b))
    ELSE add_double(self)

\* the points the two constructors hand out for curve (a, b)
PointsOn(a, b) ==
    {r.val : r \in {q \in {FieldPoint_new(x, y, a, b) :
                              x \in ElementsOf(a.prime), y \in ElementsOf(a.prime)} :
                    q.kind = "ok"}}
    \cup {FieldPoint_new_inf(a, b).val}

-----------------------------------------------------------------------------
(* The state machine: one operation applied to bounded operands *)

Init ==
    /\ pc = "idle"
    /\ op = "none"
    /\ args = [none |-> TRUE]
    /\ res = [kind |-> "none"]

Done(o, a, r) ==
    /\ pc' = "done"
    /\ op' = o
    /\ args' = a
    /\ res' = r

New ==
    /\ pc = "idle"
    /\ \E num \in Nums, prime \in Primes :
           Done("new", [num |-> num, prime |-> prime], FieldElement_new(num, prime))

Pow ==
    /\ pc = "idle"
    /\ \E self \in FieldElements, exp \in Exps :
           Done("pow", [self |-> self, exp |-> exp], pow(self, exp))

Div ==
    /\ pc = "idle"
    /\ \E self \in FieldElements, divisor \in Nums :
           Done("div", [self |-> self, divisor |-> divisor], div(self, divisor))

DivField ==
    /\ pc = "idle"
    /\ \E self \in FieldElements, divisor \in FieldElements :
           Done("div_field", [self |-> self, other |-> divisor], div_field(self, divisor))

AddOwned ==
    /\ pc = "idle"
    /\ \E self \in FieldElements, other \in FieldElements :
           Done("add_owned", [self |-> self, other |-> other], add_owned(self, other))

AddRef ==
    /\ pc = "idle"
    /\ \E self \in FieldElements, other \in FieldElements :
           Done("add_ref", [self |-> self, other |-> other], add_ref(self, other))

SubOwned ==
    /\ pc = "idle"
    /\ \E self \in FieldElements, other \in FieldElements :
           Done("sub_owned", [self |-> self, other |-> other], sub_owned(self, other))

SubRef ==
    /\ pc = "idle"
    /\ \E self \in FieldElements, other \in FieldElements :
           Done("sub_ref", [self |-> self, other |-> other], sub_ref(self, other))

MulOwned ==
    /\ pc = "idle"
    /\ \E self \in FieldElements, other \in FieldElements :
           Done("mul_owned", [self |-> self, other |-> other], mul_owned(self, other))

MulRef ==
    /\ pc = "idle"
    /\ \E self \in FieldElements, other \in FieldElements :
           Done("mul_ref", [self |-> self, other |-> other], mul_ref(self, other))

MulBigInt ==
    /\ pc = "idle"
    /\ \E self \in FieldElements, other \in Nums :
           Done("mul_bigint", [self |-> self, other |-> other], mul_bigint(self, other))

PointNew ==
    /\ pc = "idle"
    /\ \E p \in Primes :
           \E x \in ElementsOf(p), y \in ElementsOf(p), a \in ElementsOf(p), b \in ElementsOf(p) :
               Done("point_new", [x |-> x, y |-> y, a |-> a, b |-> b], FieldPoint_new(x, y, a, b))

PointNewInf ==
    /\ pc = "idle"
    /\ \E p \in Primes :
           \E a \in ElementsOf(p), b \in ElementsOf(p) :
               Done("point_new_inf", [a |-> a, b |-> b], FieldPoint_new_inf(a, b))

PointAdd ==
    /\ pc = "idle"
    /\ \E p \in Primes :
           \E a \in ElementsOf(p), b \in ElementsOf(p), b2 \in ElementsOf(p) :
               \E self \in PointsOn(a, b), other \in PointsOn(a, b2) :
                   Done("point_add", [self |-> self, other |-> other], FieldPoint_add(self, other))

Next ==
    \/ New
    \/ Pow
    \/ Div
    \/ DivField
    \/ AddOwned
    \/ AddRef
    \/ SubOwned
    \/ SubRef
    \/ MulOwned
    \/ MulRef
    \/ MulBigInt
    \/ PointNew
    \/ PointNewInf
    \/ PointAdd

Spec == Init /\ [][Next]_vars

-----------------------------------------------------------------------------
(* Vocabulary of the properties *)

Canonical(e) == 0 <= e.num /\ e.num < e.prime

Congruent(u, v, p) == (u - v) % p = 0

RECURSIVE IntPow(_, _)
IntPow(base, n) == IF n = 0 THEN 1 ELSE base * IntPow(base, n - 1)

FieldBinaryOps == {"add_owned", "add_ref", "sub_owned", "sub_ref", "mul_owned", "mul_ref"}

\* the integer the operator named o computes before reduction
IntegerOp(o, u, v) ==
    IF o \in {"add_owned", "add_ref"} THEN u + v
    ELSE IF o \in {"sub_owned", "sub_ref"} THEN u - v
    ELSE u * v

\* the result of the operator's other operand form
OtherForm(o, u, v) ==
    CASE o = "add_owned" -> add_ref(u, v)
      [] o = "add_ref"   -> add_owned(u, v)
      [] o = "sub_owned" -> sub_ref(u, v)
      [] o = "sub_ref"   -> sub_owned(u, v)
      [] o = "mul_owned" -> mul_ref(u, v)
      [] o = "mul_ref"   -> mul_owned(u, v)

CurveRhs(x, a, b) == x.num * x.num * x.num + a.num * x.num + b.num

SatisfiesCurve(pt) ==
    Congruent(pt.y.num * pt.y.num, CurveRhs(pt.x, pt.a, pt.b), pt.a.prime)

CanonicalPoint(pt) ==
    /\ Canonical(pt.a)
    /\ Canonical(pt.b)
    /\ pt.inf \/ (Canonical(pt.x) /\ Canonical(pt.y))

SameCurve(p1, p2) == p1.a = p2.a /\ p1.b = p2.b

-----------------------------------------------------------------------------
(* Properties *)

\* C1: FieldElement::new(num, prime) returns OutOfRange when num >= prime, and
\* every element it returns is canonical, 0 <= num < prime, for any integer num.
C1_NewReturnsCanonical ==
    op = "new" =>
        /\ args.num >= args.prime => res = Err("OutOfRange")
        /\ res.kind = "ok" => 0 <= res.val.num /\ res.val.num < res.val.prime

\* C2: for canonical a, b of one prime p, each of +, -, * returns the element of
\* prime p whose num is the representative in [0, p) of (a.num op b.num), and the
\* owned and the borrowed operand form return the same result.
C2_ArithmeticReduced ==
    (/\ op \in FieldBinaryOps
     /\ args.self.prime = args.other.prime
     /\ Canonical(args.self)
     /\ Canonical(args.other)) =>
        /\ res.kind = "ok"
        /\ res.val.prime = args.self.prime
        /\ res.val.num \in 0..(args.self.prime - 1)
        /\ Congruent(res.val.num, IntegerOp(op, args.self.num, args.other.num),
                     args.self.prime)
        /\ res = OtherForm(op, args.self, args.other)

\* C2 witness: 1 - 5 wraps upward to 3 in GF(7)
C2_Witness ==
    /\ op = "sub_owned"
    /\ args.self = FE(1, 7)
    /\ args.other = FE(5, 7)
    /\ res = Ok(FE(3, 7))

\* C3: every binary operation on two FieldElements (add, sub, mul, div_field)
\* aborts when the operands' primes differ.
C3_MismatchedPrimesAbort ==
    (/\ op \in FieldBinaryOps \cup {"div_field"}
     /\ Canonical(args.self)
     /\ Canonical(args.other)
     /\ args.self.prime # args.other.prime) =>
        res.kind = "panic"

\* C4: for nonzero a of prime p and any integer exponent e, a.pow(e) completes
\* and is a.num^(e mod (p-1)) mod p, the same as a.pow(e mod (p-1)).
C4_PowAnyExponent ==
    (/\ op = "pow"
     /\ Canonical(args.self)
     /\ args.self.num # 0) =>
        LET p == args.self.prime
            e == args.exp % (p - 1)
        IN  /\ res = Ok(FE(IntPow(args.self.num, e) % p, p))
            /\ res = pow(args.self, e)

\* C5: division by the zero element fails instead of returning an element.
C5_DivisionByZeroRejected ==
    (/\ op \in {"div", "div_field"}
     /\ Canonical(args.self)
     /\ op = "div" => args.divisor = 0
     /\ op = "div_field" => args.other = FE(0, args.self.prime)) =>
        res.kind # "ok"

\* C6: for a and nonzero b in GF(p), a.div(b) and a.div_field(b) equal
\* a * b.pow(-1), and the quotient times b is a again.
C6_DivisionIsInverseMultiplication ==
    (/\ op \in {"div", "div_field"}
     /\ Canonical(args.self)
     /\ op = "div" => args.divisor \in 1..(args.self.prime - 1)
     /\ op = "div_field" =>
            /\ args.other.prime = args.self.prime
            /\ Canonical(args.other)
            /\ args.other.num # 0) =>
        LET b == IF op = "div" THEN FE(args.divisor, args.self.prime) ELSE args.other
            inverse == pow(b, -1)
        IN  /\ res.kind = "ok"
            /\ inverse.kind = "ok"
            /\ res = mul_ref(args.self, inverse.val)
            /\ mul_ref(res.val, b) = Ok(args.self)

\* C6 witness: 1 / 3 = 5 in GF(7)
C6_Witness ==
    /\ op = "div"
    /\ args.self = FE(1, 7)
    /\ args.divisor = 3
    /\ res = Ok(FE(5, 7))

\* C7: for x, y, a, b of one prime, the point constructor succeeds exactly when
\* y^2 == x^3 + a*x + b in the field; the point returned is finite and carries
\* x, y, a, b; otherwise the not-on-curve error is returned.
C7_PointNewIffOnCurve ==
    op = "point_new" =>
        /\ res.kind = "ok" <=>
               Congruent(args.y.num * args.y.num, CurveRhs(args.x, args.a, args.b),
                         args.a.prime)
        /\ res.kind = "ok" => res.val = FP(args.x, args.y, args.a, args.b, FALSE)
        /\ res.kind # "ok" => res = Err("NotOnCurve")

\* C7 witness: (0, 1) is accepted on y^2 = x^3 + x + 1 over GF(5)
C7_Witness ==
    /\ op = "point_new"
    /\ args = [x |-> FE(0, 5), y |-> FE(1, 5), a |-> FE(1, 5), b |-> FE(1, 5)]
    /\ res.kind = "ok"
    /\ ~res.val.inf

\* C8: the infinity point of the curve is the identity of addition on both
\* sides: add(P, Infinity) == P and add(Infinity, P) == P for finite P.
C8_InfinityIsIdentity ==
    (/\ op = "point_add"
     /\ SameCurve(args.self, args.other)) =>
        /\ (~args.self.inf /\ args.other.inf) => res = Ok(args.self)
        /\ (args.self.inf /\ ~args.other.inf) => res = Ok(args.other)

\* C8 witness: Infinity + P for a finite P with a nonzero y
C8_Witness ==
    /\ op = "point_add"
    /\ SameCurve(args.self, args.other)
    /\ args.self.inf
    /\ ~args.other.inf
    /\ args.other.y.num # 0
    /\ res = Ok(args.other)

\* C9: for every odd prime (3 included) and every two points of one curve,
\* add never aborts and returns the infinity point or a finite point that
\* satisfies the curve equation.
C9_AddTotalOnCurve ==
    (/\ op = "point_add"
     /\ args.self.a.prime % 2 = 1
     /\ SameCurve(args.self, args.other)
     /\ CanonicalPoint(args.self)
     /\ CanonicalPoint(args.other)) =>
        /\ res.kind = "ok"
        /\ res.val.inf \/ SatisfiesCurve(res.val)

\* C10: for finite p, q of one curve, whenever add applies the doubling formula
\* (p.x == q.x and p.y != 0), p and q are the same point.
C10_DoublingOnlyForEqualPoints ==
    (/\ op = "point_add"
     /\ SameCurve(args.self, args.other)
     /\ CanonicalPoint(args.self)
     /\ CanonicalPoint(args.other)
     /\ ~args.self.inf
     /\ ~args.other.inf
     /\ args.self.x = args.other.x
     /\ args.self.y.num # 0
     /\ res.kind = "ok") =>
        args.self = args.other

====
